---- MODULE Spec2Model ----
(***************************************************************************)
(* Model of ktransformers/util/swapper.py: the Swapper expert cache.       *)
(* One owner thread calls the Swapper's methods; the tasks it submits to   *)
(* the CPUInfer pool run concurrently and touch only the files of the      *)
(* storage directory.                                                      *)
(***************************************************************************)
EXTENDS Integers, Sequences, FiniteSets, TLC

VARIABLES
    max_memory,      \* self.max_memory
    memory_cache,    \* self.memory_cache: OrderedDict, least recently used first
    on_disk,         \* self.on_disk
    access_pattern,  \* self.access_pattern
    pending_ops,     \* self.pending_ops: dict in key insertion order, values are the futures
    orphans,         \* unfinished store tasks of the pool whose future pending_ops no longer holds
    disk,            \* the files <storage_dir>/<expert_id>.pt
    pc,              \* where the owner thread is
    cur,             \* the call the owner thread is blocked in
    hist,            \* the last calls that returned or raised, newest last
    window,          \* how many calls hist keeps
    ncalls,          \* number of calls made so far
    budget,          \* number of calls the owner makes in this run
    recency,         \* ids in the order of their last insertion or promotion, oldest first
    evicted          \* what the last call's _swap_out_lru popped, with the oldest resident by recency

vars == <<max_memory, memory_cache, on_disk, access_pattern, pending_ops, orphans,
          disk, pc, cur, hist, window, ncalls, budget, recency, evicted>>

progVars == <<max_memory, memory_cache, on_disk, access_pattern, pending_ops, orphans, disk>>

(***************************************************************************)
(* Bounds of the model.                                                    *)
(***************************************************************************)
Ids == {"A", "B", "C"}
Ids2 == {"A", "B"}
Ids1 == {"A"}
MaxVer == 2        \* distinct weight contents an expert can be registered with
MaxCalls == 4      \* calls the owner makes in one run
AccessCap == 2     \* length at which access_pattern drops its oldest entry (100 in the source)

(***************************************************************************)
(* Values.  An expert's data is the tuple (gate, up, down, metadata).      *)
(***************************************************************************)
Rec(v) == <<v, 10 + v, 20 + v, 30 + v>>
Recs == {Rec(v) : v \in 1..MaxVer}
SaveResult == <<1>>        \* the True a _save_task returns
NoData == <<>>             \* None
Absent == <<>>             \* no file
Partial == <<0>>           \* a file torch.save has opened and not finished writing
\* the file of id that a storage directory written earlier holds
InitRec(id) == Rec(IF id = "A" THEN 1 ELSE IF id = "B" THEN 2 ELSE 3)
IsRec(d) == Len(d) = 4     \* data[0]..data[3] and data[:3] work on it
Payloads(d) == SubSeq(d, 1, 3)    \* data[:3]

(***************************************************************************)
(* OrderedDict operations on memory_cache, a sequence of [id, data].       *)
(***************************************************************************)
CacheIds(c) == [i \in 1..Len(c) |-> c[i].id]
InCache(c, id) == \E i \in 1..Len(c) : c[i].id = id
CacheGet(c, id) == (CHOOSE i \in 1..Len(c) : c[i].id = id)
CacheData(c, id) == c[CacheGet(c, id)].data
CacheDel(c, id) == SelectSeq(c, LAMBDA e : e.id # id)
CacheSetItem(c, id, data) ==
    IF InCache(c, id)
    THEN [i \in 1..Len(c) |-> IF c[i].id = id THEN [id |-> id, data |-> data] ELSE c[i]]
    ELSE Append(c, [id |-> id, data |-> data])
MoveToEnd(c, id) == Append(CacheDel(c, id), c[CacheGet(c, id)])

(***************************************************************************)
(* Futures.  A task is [id, kind, data, st, err, out].                     *)
(***************************************************************************)
StoreTask(id, data) ==
    [id |-> id, kind |-> "store", data |-> data, st |-> "queued", err |-> "", out |-> NoData]
LoadTask(id) ==
    [id |-> id, kind |-> "load", data |-> NoData, st |-> "queued", err |-> "", out |-> NoData]
Done(t) == t.st = "done"

PendHas(p, id) == \E i \in 1..Len(p) : p[i].id = id
PendIdx(p, id) == CHOOSE i \in 1..Len(p) : p[i].id = id
PendGet(p, id) == p[PendIdx(p, id)]
PendDel(p, id) == SelectSeq(p, LAMBDA t : t.id # id)
PendSet(p, t) ==
    IF PendHas(p, t.id)
    THEN [i \in 1..Len(p) |-> IF p[i].id = t.id THEN t ELSE p[i]]
    ELSE Append(p, t)
\* the task a dict assignment drops stays in the pool; only a store still has an effect
Dropped(p, id) ==
    IF PendHas(p, id) /\ ~Done(PendGet(p, id)) /\ PendGet(p, id).kind = "store"
    THEN {PendGet(p, id)} ELSE {}

(***************************************************************************)
(* The pool runs a task: what one step of the task does to it and to the   *)
(* file of its id.                                                         *)
(***************************************************************************)
TaskAfter(t, file) ==
    IF t.kind = "load"
    THEN IF IsRec(file) THEN [t EXCEPT !.st = "done", !.out = file]
         ELSE IF file = Absent THEN [t EXCEPT !.st = "done", !.err = "FileNotFoundError"]
         ELSE [t EXCEPT !.st = "done", !.err = "LoadError"]
    ELSE IF t.st = "queued"
         THEN IF IsRec(t.data) THEN [t EXCEPT !.st = "running"]
              ELSE [t EXCEPT !.st = "done", !.err = "TypeError"]
         ELSE [t EXCEPT !.st = "done", !.out = SaveResult]
FileAfter(t, file) ==
    IF t.kind = "load" THEN file
    ELSE IF t.st = "queued" THEN (IF IsRec(t.data) THEN Partial ELSE file)
    ELSE IF t.st = "running" THEN t.data
    ELSE file

(***************************************************************************)
(* Bookkeeping of the calls.                                               *)
(***************************************************************************)
Storing(id) ==
    \/ /\ PendHas(pending_ops, id)
       /\ ~Done(PendGet(pending_ops, id))
       /\ PendGet(pending_ops, id).kind = "store"
    \/ \E t \in orphans : t.id = id
\* what the call finds when it starts, for its id and in pending_ops
Pre(id) ==
    [res     |-> id \in Ids /\ InCache(memory_cache, id),
     pend    |-> IF PendHas(pending_ops, id) THEN PendGet(pending_ops, id).kind ELSE "",
     pst     |-> IF PendHas(pending_ops, id) THEN PendGet(pending_ops, id).st ELSE "",
     file    |-> IF id \in Ids THEN disk[id] ELSE Absent,
     storing |-> id \in Ids /\ Storing(id),
     npend   |-> Len(pending_ops),
     failed  |-> \E i \in 1..Len(pending_ops) : pending_ops[i].err # ""]
Call(op, id, flag, rec) ==
    [op |-> op, id |-> id, flag |-> flag, rec |-> rec, ret |-> "", val |-> NoData,
     keys |-> <<>>, pre |-> Pre(id)]
NoCall == [op |-> "", id |-> "", flag |-> FALSE, rec |-> NoData, ret |-> "", val |-> NoData,
           keys |-> <<>>,
           pre |-> [res |-> FALSE, pend |-> "", pst |-> "", file |-> Absent,
                    storing |-> FALSE, npend |-> 0, failed |-> FALSE]]
Push(h, c) ==
    IF window = 0 THEN h
    ELSE IF Len(h) >= window THEN Append(Tail(h), c) ELSE Append(h, c)
Return(call, ret, val) ==
    /\ pc' = "idle"
    /\ cur' = NoCall
    /\ hist' = Push(hist, [call EXCEPT !.ret = ret, !.val = val])
    /\ window' = window
Begin ==
    /\ pc = "idle"
    /\ ncalls < budget
    /\ ncalls' = ncalls + 1
    /\ budget' = budget

Touch(r, id) == Append(SelectSeq(r, LAMBDA x : x # id), id)
OldestResident(r, c) ==
    LET res == SelectSeq(r, LAMBDA x : InCache(c, x))
    IN IF res = <<>> THEN "" ELSE Head(res)

\* the part of the state one call works on
S == [mc |-> memory_cache, po |-> pending_ops, od |-> on_disk, orph |-> orphans, ev |-> <<>>]

(***************************************************************************)
(* _swap_out_lru and the loop of swap_in that calls it.                    *)
(***************************************************************************)
SwapOutLru(s) ==
    IF s.mc = <<>> THEN s
    ELSE LET e == Head(s.mc)
         IN [mc   |-> Tail(s.mc),
             po   |-> PendSet(s.po, StoreTask(e.id, e.data)),
             od   |-> s.od \cup {e.id},
             orph |-> s.orph \cup Dropped(s.po, e.id),
             ev   |-> Append(s.ev, [id |-> e.id, lru |-> OldestResident(recency, s.mc),
                                    n |-> Len(s.mc)])]

RECURSIVE Reserve(_, _)
Reserve(s, limit) ==
    IF Len(s.mc) >= limit /\ s.mc # <<>> THEN Reserve(SwapOutLru(s), limit) ELSE s
\* on an empty cache the loop goes on for ever when its limit is not positive
ReserveHangs(limit) == limit <= 0

(***************************************************************************)
(* swap_in from the access history on (lines 88-126), on the state s.      *)
(***************************************************************************)
Trimmed(a) == IF Len(a) > AccessCap THEN Tail(a) ELSE a
SwapInBody(id, bg, s) ==
    LET acc   == Trimmed(Append(access_pattern, id))
        limit == max_memory - (IF bg THEN 1 ELSE 0)
        r     == Reserve(s, limit)
        out(st, rcy, ret, val) == [s |-> st, acc |-> acc, rcy |-> rcy, ret |-> ret, val |-> val]
    IN IF InCache(s.mc, id)
       THEN out([s EXCEPT !.mc = MoveToEnd(@, id)], Touch(recency, id),
                IF bg THEN "none" ELSE "ok", IF bg THEN NoData ELSE CacheData(s.mc, id))
       ELSE IF ReserveHangs(limit) THEN out(r, recency, "hang", NoData)
       ELSE IF bg
            THEN out([r EXCEPT !.po = PendSet(@, LoadTask(id)), !.orph = @ \cup Dropped(r.po, id)],
                     recency, "none", NoData)
       ELSE IF disk[id] = Absent THEN out(r, recency, "FileNotFoundError", NoData)
       ELSE IF ~IsRec(disk[id]) THEN out(r, recency, "LoadError", NoData)
       ELSE out([r EXCEPT !.mc = MoveToEnd(CacheSetItem(@, id, disk[id]), id), !.od = @ \ {id}],
                Touch(recency, id), "ok", disk[id])

\* get_expert slices what swap_in returned
Sliced(call, o) == IF call.op = "get" /\ o.ret = "ok" THEN Payloads(o.val) ELSE o.val
Apply(call, o) ==
    /\ memory_cache' = o.s.mc
    /\ pending_ops' = o.s.po
    /\ on_disk' = o.s.od
    /\ orphans' = o.s.orph
    /\ evicted' = o.s.ev
    /\ access_pattern' = o.acc
    /\ recency' = o.rcy
    /\ IF o.ret = "hang"
       THEN pc' = "hung" /\ cur' = call /\ UNCHANGED <<hist, window>>
       ELSE Return(call, o.ret, Sliced(call, o))
    /\ UNCHANGED <<max_memory, disk>>
Block(call, where) ==
    /\ pc' = where
    /\ cur' = call
    /\ evicted' = <<>>
    /\ UNCHANGED <<progVars, hist, window, recency>>
Raise(call, err) ==
    /\ Return(call, err, NoData)
    /\ evicted' = <<>>
    /\ UNCHANGED <<progVars, recency>>

(***************************************************************************)
(* swap_in                                                                 *)
(***************************************************************************)
\* swap_in that goes on without waiting for the pending operation
SwapInCallNoWait(call, bg) == Apply(call, SwapInBody(call.id, bg, S))
\* the return of line 86 placed after the access history is recorded
SwapInDeclineRecorded(call) ==
    /\ Return(call, "none", NoData)
    /\ access_pattern' = Trimmed(Append(access_pattern, call.id))
    /\ evicted' = <<>>
    /\ UNCHANGED <<max_memory, memory_cache, on_disk, pending_ops, orphans, disk, recency>>
\* line 86: the background call returns None when the pending operation is not done
SwapInDecline(call) ==
    /\ Return(call, "none", NoData)
    /\ evicted' = <<>>
    /\ UNCHANGED <<progVars, recency>>
SwapInCall(call, bg) ==
    LET id == call.id
    IN IF PendHas(pending_ops, id)
       THEN IF Done(PendGet(pending_ops, id))
            THEN Apply(call, SwapInBody(id, bg, [S EXCEPT !.po = PendDel(@, id)]))
            ELSE IF ~bg THEN Block(call, "swap_in_wait")
            ELSE SwapInDecline(call)
       ELSE Apply(call, SwapInBody(id, bg, S))

SwapIn(id, bg) ==
    /\ Begin
    /\ SwapInCall(Call("swap_in", id, bg, NoData), bg)

\* pending_ops[expert_id].result() returns or raises; the entry stays in pending_ops
SwapInResume ==
    /\ pc = "swap_in_wait"
    /\ Done(PendGet(pending_ops, cur.id))
    /\ UNCHANGED <<ncalls, budget>>
    /\ IF PendGet(pending_ops, cur.id).err # ""
       THEN Raise(cur, PendGet(pending_ops, cur.id).err)
       ELSE Apply(cur, SwapInBody(cur.id, FALSE, S))

(***************************************************************************)
(* get_expert                                                              *)
(***************************************************************************)
\* lines 160-163 and 166-169: take the future's result into the cache
GetConsume(call) ==
    LET t == PendGet(pending_ops, call.id)
    IN IF t.err # "" THEN Raise(call, t.err)
       ELSE /\ pending_ops' = PendDel(pending_ops, call.id)
            /\ memory_cache' = CacheSetItem(memory_cache, call.id, t.out)
            /\ recency' = Touch(recency, call.id)
            /\ evicted' = <<>>
            /\ IF IsRec(t.out) THEN Return(call, "ok", Payloads(t.out))
               ELSE Return(call, "TypeError", NoData)
            /\ UNCHANGED <<max_memory, on_disk, access_pattern, orphans, disk>>

GetHit(call) ==
    /\ memory_cache' = MoveToEnd(memory_cache, call.id)
    /\ recency' = Touch(recency, call.id)
    /\ evicted' = <<>>
    /\ IF IsRec(CacheData(memory_cache, call.id))
       THEN Return(call, "ok", Payloads(CacheData(memory_cache, call.id)))
       ELSE Return(call, "TypeError", NoData)
    /\ UNCHANGED <<max_memory, on_disk, access_pattern, pending_ops, orphans, disk>>

\* future.wait(timeout) is false
GetTimeoutCancel(call) ==
    /\ Return(call, "TimeoutError", NoData)
    /\ pending_ops' = PendDel(pending_ops, call.id)
    /\ evicted' = <<>>
    /\ UNCHANGED <<max_memory, memory_cache, on_disk, access_pattern, orphans, disk, recency>>
GetTimeout(call) == Raise(call, "TimeoutError")

Get(id, timed) ==
    LET call == Call("get", id, timed, NoData)
    IN /\ Begin
       /\ IF InCache(memory_cache, id) THEN GetHit(call)
          ELSE IF PendHas(pending_ops, id)
               THEN IF Done(PendGet(pending_ops, id)) THEN GetConsume(call)
                    ELSE IF timed
                         THEN \/ GetTimeout(call)
                              \/ Block(call, "get_wait")         \* the task finishes in time
                         ELSE SwapInCall(call, FALSE)
               ELSE SwapInCall(call, FALSE)

GetResume ==
    /\ pc = "get_wait"
    /\ Done(PendGet(pending_ops, cur.id))
    /\ UNCHANGED <<ncalls, budget>>
    /\ GetConsume(cur)

(***************************************************************************)
(* register_expert, swap_out, unregister_expert                            *)
(***************************************************************************)
\* register_expert without its move_to_end
RegisterCacheInPlace(c, id, rec) == CacheSetItem(c, id, rec)
\* register_expert that keeps the cache within max_memory
RegisterCacheBounded(c, id, rec) ==
    IF ~InCache(c, id) /\ Len(c) >= max_memory
    THEN Append(Tail(c), [id |-> id, data |-> rec])
    ELSE MoveToEnd(CacheSetItem(c, id, rec), id)
RegisterCache(c, id, rec) == MoveToEnd(CacheSetItem(c, id, rec), id)

Register(id, rec, persist) ==
    LET call == Call("register", id, persist, rec)
    IN /\ Begin
       /\ memory_cache' = RegisterCache(memory_cache, id, rec)
       /\ recency' = Touch(recency, id)
       /\ evicted' = <<>>
       /\ IF persist
          THEN /\ pending_ops' = PendSet(pending_ops, StoreTask(id, rec))
               /\ orphans' = orphans \cup Dropped(pending_ops, id)
               /\ on_disk' = on_disk \cup {id}
          ELSE UNCHANGED <<pending_ops, orphans, on_disk>>
       /\ Return(call, "none", NoData)
       /\ UNCHANGED <<max_memory, access_pattern, disk>>

SwapOut(id) ==
    LET call == Call("swap_out", id, FALSE, NoData)
    IN /\ Begin
       /\ IF ~InCache(memory_cache, id) THEN Raise(call, "none")
          ELSE IF ~IsRec(CacheData(memory_cache, id)) THEN Raise(call, "TypeError")
          ELSE /\ disk' = [disk EXCEPT ![id] = CacheData(memory_cache, id)]
               /\ memory_cache' = CacheDel(memory_cache, id)
               /\ on_disk' = on_disk \cup {id}
               /\ evicted' = <<>>
               /\ Return(call, "none", NoData)
               /\ UNCHANGED <<max_memory, access_pattern, pending_ops, orphans, recency>>

\* os.remove unlinks the file; a task that is writing it goes on writing the unlinked file
Unlinked(t, id) ==
    IF t.id = id /\ t.kind = "store" /\ t.st = "running" THEN [t EXCEPT !.st = "detached"] ELSE t

Unregister(id) ==
    LET call == Call("unregister", id, FALSE, NoData)
    IN /\ Begin
       /\ memory_cache' = CacheDel(memory_cache, id)
       /\ evicted' = <<>>
       /\ IF id \notin on_disk
          THEN /\ Return(call, "none", NoData)
               /\ UNCHANGED <<on_disk, disk, pending_ops, orphans>>
          ELSE IF disk[id] = Absent
          THEN /\ Return(call, "FileNotFoundError", NoData)
               /\ UNCHANGED <<on_disk, disk, pending_ops, orphans>>
          ELSE /\ disk' = [disk EXCEPT ![id] = Absent]
               /\ pending_ops' = [i \in 1..Len(pending_ops) |-> Unlinked(pending_ops[i], id)]
               /\ orphans' = {Unlinked(t, id) : t \in orphans}
               /\ on_disk' = on_disk \ {id}
               /\ Return(call, "none", NoData)
       /\ UNCHANGED <<max_memory, access_pattern, recency>>

(***************************************************************************)
(* flush                                                                   *)
(***************************************************************************)
\* the loop over list(self.pending_ops.keys()) up to the first future that is not done
\* the loop when it leaves the futures that are done in pending_ops
RECURSIVE FlushRunKeep(_, _)
FlushRunKeep(po, keys) ==
    IF keys = <<>> THEN [po |-> po, keys |-> keys]
    ELSE IF Done(PendGet(po, Head(keys))) THEN FlushRunKeep(po, Tail(keys))
    ELSE [po |-> po, keys |-> keys]
RECURSIVE FlushRun(_, _)
FlushRun(po, keys) ==
    IF keys = <<>> THEN [po |-> po, keys |-> keys]
    ELSE IF Done(PendGet(po, Head(keys))) THEN FlushRun(PendDel(po, Head(keys)), Tail(keys))
    ELSE [po |-> po, keys |-> keys]

FlushGo(call, r) ==
    /\ pending_ops' = r.po
    /\ evicted' = <<>>
    /\ IF r.keys = <<>> THEN Return(call, "none", NoData)
       ELSE pc' = "flush_wait" /\ cur' = [call EXCEPT !.keys = r.keys] /\ UNCHANGED <<hist, window>>
    /\ UNCHANGED <<max_memory, memory_cache, on_disk, access_pattern, orphans, disk, recency>>

Flush ==
    /\ Begin
    /\ FlushGo(Call("flush", "", FALSE, NoData),
               FlushRun(pending_ops, [i \in 1..Len(pending_ops) |-> pending_ops[i].id]))

\* self.pending_ops[expert_id].result() returns or raises
FlushResume ==
    /\ pc = "flush_wait"
    /\ Done(PendGet(pending_ops, Head(cur.keys)))
    /\ UNCHANGED <<ncalls, budget>>
    /\ IF PendGet(pending_ops, Head(cur.keys)).err # ""
       THEN Raise(cur, PendGet(pending_ops, Head(cur.keys)).err)
       ELSE FlushGo(cur, FlushRun(PendDel(pending_ops, Head(cur.keys)), Tail(cur.keys)))

(***************************************************************************)
(* The CPUInfer pool                                                       *)
(***************************************************************************)
RunPending(i) ==
    LET t == pending_ops[i]
    IN /\ ~Done(t)
       /\ pending_ops' = [pending_ops EXCEPT ![i] = TaskAfter(t, disk[t.id])]
       /\ disk' = [disk EXCEPT ![t.id] = FileAfter(t, @)]
       /\ UNCHANGED <<max_memory, memory_cache, on_disk, access_pattern, orphans,
                      pc, cur, hist, window, ncalls, budget, recency, evicted>>

RunOrphan(t) ==
    LET t2 == TaskAfter(t, disk[t.id])
    IN /\ orphans' = (orphans \ {t}) \cup (IF Done(t2) THEN {} ELSE {t2})
       /\ disk' = [disk EXCEPT ![t.id] = FileAfter(t, @)]
       /\ UNCHANGED <<max_memory, memory_cache, on_disk, access_pattern, pending_ops,
                      pc, cur, hist, window, ncalls, budget, recency, evicted>>

(***************************************************************************)
(* The Swapper after __init__; the storage directory may hold files.       *)
(***************************************************************************)
InitWith(caps, stored, w, calls) ==
    /\ max_memory \in caps
    /\ memory_cache = <<>>
    /\ on_disk = {}
    /\ access_pattern = <<>>
    /\ pending_ops = <<>>
    /\ orphans = {}
    /\ \E have \in stored : disk = [id \in Ids |-> IF id \in have THEN InitRec(id) ELSE Absent]
    /\ pc = "idle"
    /\ cur = NoCall
    /\ hist = <<>>
    /\ window = w
    /\ ncalls = 0
    /\ budget = calls
    /\ recency = <<>>
    /\ evicted = <<>>

(***************************************************************************)
(* Synchronous swap_in and get only, capacity 2.                           *)
(***************************************************************************)
InitSync == InitWith({2}, SUBSET Ids, 4, MaxCalls)
NextSync ==
    \/ \E id \in Ids : SwapIn(id, FALSE)
    \/ SwapInResume
    \/ \E id \in Ids, timed \in BOOLEAN : Get(id, timed)
    \/ GetResume
    \/ \E i \in 1..Len(pending_ops) : RunPending(i)
SpecSync == InitSync /\ [][NextSync]_vars

(***************************************************************************)
(* register, swap_in, get and swap_out on three ids; hist is not kept.     *)
(***************************************************************************)
InitLRU == InitWith({2}, {Ids}, 0, MaxCalls)
NextLRU ==
    \/ \E id \in Ids : Register(id, InitRec(id), FALSE)
    \/ \E id \in Ids, bg \in BOOLEAN : SwapIn(id, bg)
    \/ SwapInResume
    \/ \E id \in Ids : SwapOut(id)
    \/ \E id \in Ids : Get(id, FALSE)
    \/ \E i \in 1..Len(pending_ops) : RunPending(i)
SpecLRU == InitLRU /\ [][NextLRU]_vars

(***************************************************************************)
(* register, swap_out and synchronous swap_in of one id, empty directory.  *)
(***************************************************************************)
InitRoundTrip == InitWith({2}, {{}}, 3, MaxCalls)
NextRoundTrip ==
    \/ \E id \in Ids1, rec \in Recs, persist \in BOOLEAN : Register(id, rec, persist)
    \/ \E id \in Ids1 : SwapOut(id)
    \/ \E id \in Ids1 : SwapIn(id, FALSE)
    \/ SwapInResume
    \/ \E i \in 1..Len(pending_ops) : RunPending(i)
    \/ \E t \in orphans : RunOrphan(t)
SpecRoundTrip == InitRoundTrip /\ [][NextRoundTrip]_vars

(***************************************************************************)
(* Background and synchronous loads next to register and swap_out.         *)
(***************************************************************************)
InitBackground == InitWith({2}, {{"A"}, Ids2}, 2, MaxCalls)
NextBackground ==
    \/ \E id \in Ids2, bg \in BOOLEAN : SwapIn(id, bg)
    \/ SwapInResume
    \/ \E id \in Ids2, timed \in BOOLEAN : Get(id, timed)
    \/ GetResume
    \/ \E persist \in BOOLEAN : Register("B", Rec(MaxVer), persist)
    \/ \E i \in 1..Len(pending_ops) : RunPending(i)
    \/ \E t \in orphans : RunOrphan(t)
SpecBackground == InitBackground /\ [][NextBackground]_vars

(***************************************************************************)
(* All operations on one id, empty directory, one call more.               *)
(***************************************************************************)
InitUnregister == InitWith({2}, {{}}, 2, MaxCalls + 1)
NextUnregister ==
    \/ \E id \in Ids1, rec \in Recs, persist \in BOOLEAN : Register(id, rec, persist)
    \/ \E id \in Ids1 : SwapOut(id)
    \/ \E id \in Ids1 : SwapIn(id, FALSE)
    \/ SwapInResume
    \/ \E id \in Ids1 : Get(id, FALSE)
    \/ \E id \in Ids1 : Unregister(id)
    \/ \E i \in 1..Len(pending_ops) : RunPending(i)
    \/ \E t \in orphans : RunOrphan(t)
SpecUnregister == InitUnregister /\ [][NextUnregister]_vars

(***************************************************************************)
(* flush next to the operations that issue tasks.                          *)
(***************************************************************************)
InitFlush == InitWith({2}, {{}, {"A"}}, 2, MaxCalls)
NextFlush ==
    \/ \E id \in Ids2 : Register(id, Rec(MaxVer), TRUE)
    \/ \E id \in Ids2, bg \in BOOLEAN : SwapIn(id, bg)
    \/ SwapInResume
    \/ Flush
    \/ FlushResume
    \/ \E i \in 1..Len(pending_ops) : RunPending(i)
    \/ \E t \in orphans : RunOrphan(t)
SpecFlush == InitFlush /\ [][NextFlush]_vars

(***************************************************************************)
(* Loads of stored experts with capacity 1 or 2.                           *)
(***************************************************************************)
InitCapacity == InitWith({1, 2}, {Ids2}, 2, MaxCalls)
NextCapacity ==
    \/ \E id \in Ids2, bg \in BOOLEAN : SwapIn(id, bg)
    \/ SwapInResume
    \/ \E id \in Ids2 : Get(id, FALSE)
    \/ \E i \in 1..Len(pending_ops) : RunPending(i)
SpecCapacity == InitCapacity /\ [][NextCapacity]_vars

(***************************************************************************)
(* register on three ids with capacity 2, next to swap_out.                *)
(***************************************************************************)
InitRegister == InitWith({2}, {{}}, 1, MaxCalls)
NextRegister ==
    \/ \E id \in Ids, persist \in BOOLEAN : Register(id, InitRec(id), persist)
    \/ \E id \in Ids2 : SwapOut(id)
    \/ \E i \in 1..Len(pending_ops) : RunPending(i)
    \/ \E t \in orphans : RunOrphan(t)
SpecRegister == InitRegister /\ [][NextRegister]_vars

(***************************************************************************)
(* All operations on A with capacity 1; loads of the stored B evict A.     *)
(* hist keeps every call.                                                  *)
(***************************************************************************)
InitNoLoss == InitWith({1}, {{"B"}}, MaxCalls, MaxCalls)
NextNoLoss ==
    \/ \E rec \in Recs, persist \in BOOLEAN : Register("A", rec, persist)
    \/ \E id \in Ids2 : SwapIn(id, FALSE)
    \/ SwapInResume
    \/ SwapOut("A")
    \/ Get("A", FALSE)
    \/ Unregister("A")
    \/ Flush
    \/ FlushResume
    \/ \E i \in 1..Len(pending_ops) : RunPending(i)
    \/ \E t \in orphans : RunOrphan(t)
SpecNoLoss == InitNoLoss /\ [][NextNoLoss]_vars

(***************************************************************************)
(* Properties.                                                             *)
(***************************************************************************)
Last == hist[Len(hist)]
Is(c, op, id, flag) == c.op = op /\ c.id = id /\ c.flag = flag
Returned(c) == c.ret \in {"ok", "none"}

\* C1: with only synchronous swap_in and get calls, whenever no call is in progress
\* the Memory Cache holds at most max_memory_experts records.
CapacityBound == pc = "idle" => Len(memory_cache) <= max_memory

\* the calls so far are swap_in(A), swap_in(B), swap_in(C), each synchronous and successful
PressureLoaded ==
    /\ ncalls = Len(hist)
    /\ Len(hist) >= 3
    /\ Is(hist[1], "swap_in", "A", FALSE) /\ hist[1].ret = "ok"
    /\ Is(hist[2], "swap_in", "B", FALSE) /\ hist[2].ret = "ok"
    /\ Is(hist[3], "swap_in", "C", FALSE) /\ hist[3].ret = "ok"

\* C3: with capacity 2 and A, B, C on disk, swap_in(A), swap_in(B), swap_in(C) leaves B, C
\* resident and A's write-back issued; get(A) then returns A's payloads and leaves C, A
\* resident, whatever state the write-back of A is in when get(A) is called.
EvictionUnderPressure ==
    /\ (PressureLoaded /\ Len(hist) = 3) =>
            /\ CacheIds(memory_cache) = <<"B", "C">>
            /\ PendHas(pending_ops, "A")
            /\ PendGet(pending_ops, "A").kind = "store"
            /\ PendGet(pending_ops, "A").data = hist[1].val
    /\ (PressureLoaded /\ Len(hist) = 4 /\ Is(hist[4], "get", "A", FALSE)) =>
            /\ hist[4].ret = "ok"
            /\ hist[4].val = Payloads(hist[1].val)
            /\ CacheIds(memory_cache) = <<"C", "A">>

\* the same for the two states of the write-back in which get(A) waits for it
EvictionUnderPressureUnfinished ==
    (PressureLoaded /\ Len(hist) = 4 /\ Is(hist[4], "get", "A", FALSE) /\ hist[4].pre.pst # "done") =>
            /\ hist[4].ret = "ok"
            /\ hist[4].val = Payloads(hist[1].val)
            /\ CacheIds(memory_cache) = <<"C", "A">>

\* C2: every record that capacity reservation evicts is, at that moment, the resident
\* whose last insertion or promotion is the oldest.
LRUCorrectness == \A i \in 1..Len(evicted) : evicted[i].id = evicted[i].lru
\* an eviction that had to choose among several residents, one of them promoted after
\* a later-inserted one
LRUWitness ==
    \E i \in 1..Len(evicted) :
        /\ evicted[i].n >= 2
        /\ evicted[i].id = "B"
        /\ recency = <<"B", "A", "C">>

\* the last three calls are register(id, rec, persist), swap_out(id), swap_in(id)
RoundTripDone(id) ==
    /\ Len(hist) >= 3
    /\ hist[Len(hist) - 2].op = "register" /\ hist[Len(hist) - 2].id = id
    /\ Is(hist[Len(hist) - 1], "swap_out", id, FALSE)
    /\ Is(Last, "swap_in", id, FALSE)

\* C4: register(id, g, u, d, m), swap_out(id), synchronous swap_in(id) returns g, u, d,
\* for either value of persist and any timing of the store task register issued.
RoundTrip ==
    \A id \in Ids : RoundTripDone(id) =>
        /\ Last.ret = "ok"
        /\ Payloads(Last.val) = Payloads(hist[Len(hist) - 2].rec)

\* the same when no store of the id was unfinished at the time of the register
RoundTripQuiet ==
    \A id \in Ids : (RoundTripDone(id) /\ ~hist[Len(hist) - 2].pre.storing) =>
        /\ Last.ret = "ok"
        /\ Payloads(Last.val) = Payloads(hist[Len(hist) - 2].rec)

Prev == hist[Len(hist) - 1]
\* the call before the last was swap_in(id, background=True) on a persisted, non-resident
\* id without pending operation, and the last call is get(id) without timeout
BackgroundThenGet(id) ==
    /\ Len(hist) >= 2
    /\ Is(Prev, "swap_in", id, TRUE)
    /\ ~Prev.pre.res /\ Prev.pre.pend = "" /\ IsRec(Prev.pre.file) /\ ~Prev.pre.storing
    /\ Is(Last, "get", id, FALSE)

TimeoutThenGet(id) ==
    /\ Len(hist) >= 2
    /\ Is(Prev, "get", id, TRUE) /\ Prev.ret = "TimeoutError"
    /\ Prev.pre.pend = "load" /\ IsRec(Prev.pre.file) /\ ~Prev.pre.storing
    /\ Is(Last, "get", id, FALSE)
TimedOut ==
    /\ ncalls' = ncalls + 1
    /\ pc' = "idle"
    /\ hist'[Len(hist')].ret = "TimeoutError"

\* C6: a get that times out leaves the Memory Cache and pending_ops (the task included)
\* as they were, and the get without timeout after it returns the id's payloads once the
\* load is done.
TimeoutThenSuccess ==
    /\ [][TimedOut => /\ memory_cache' = memory_cache
                      /\ pending_ops' = pending_ops
                      /\ PendHas(pending_ops, hist'[Len(hist')].id)]_vars
    /\ [](\A id \in Ids : TimeoutThenGet(id) =>
            /\ Last.ret = "ok"
            /\ Last.val = Payloads(Prev.pre.file)
            /\ PendHas(pending_ops, id) => Done(PendGet(pending_ops, id)))
\* the load was still not started when the second get was called
TimeoutWitness ==
    /\ TimeoutThenGet("A")
    /\ Last.pre.pst = "queued"
    /\ Last.ret = "ok"

\* C7: a synchronous swap_in(X) that follows unregister(X) raises FileNotFoundError,
\* whatever calls on X came before the unregister.
UnregisterRemovesAvailability ==
    \A id \in Ids :
        (Len(hist) >= 2 /\ Is(Prev, "unregister", id, FALSE) /\ Returned(Prev)
            /\ Is(Last, "swap_in", id, FALSE))
        => Last.ret = "FileNotFoundError"

\* C8: when unregister(id) has returned, id is in no structure and has no file, and a
\* get(id) that follows returns no payloads.
UnregisterRemovesEverything ==
    \A id \in Ids :
        /\ (Len(hist) >= 1 /\ Is(Last, "unregister", id, FALSE) /\ Returned(Last) /\ pc = "idle") =>
                /\ ~InCache(memory_cache, id)
                /\ id \notin on_disk
                /\ ~PendHas(pending_ops, id)
                /\ disk[id] = Absent
        /\ (Len(hist) >= 2 /\ Is(Prev, "unregister", id, FALSE) /\ Returned(Prev)
                /\ Is(Last, "get", id, FALSE)) => Last.ret # "ok"
\* what does hold after unregister(id) returns
UnregisterRemovesMarks ==
    \A id \in Ids :
        (Len(hist) >= 1 /\ Is(Last, "unregister", id, FALSE) /\ Returned(Last) /\ pc = "idle") =>
                /\ ~InCache(memory_cache, id)
                /\ id \notin on_disk

FlushReturned(c) == c.op = "flush" /\ c.ret = "none"
\* the step is a call of flush
FlushCalled ==
    /\ ncalls' = ncalls + 1
    /\ \/ pc' = "flush_wait"
       \/ pc' = "idle" /\ hist'[Len(hist')].op = "flush"

\* C9: when flush has returned, pending_ops is empty; a flush called next returns at
\* once and changes nothing.
FlushTerminalIdempotent ==
    /\ []((Len(hist) >= 1 /\ FlushReturned(Last)) => pending_ops = <<>>)
    /\ [][(Len(hist) >= 1 /\ FlushReturned(Last) /\ FlushCalled) =>
            /\ pc' = "idle"
            /\ FlushReturned(hist'[Len(hist')])
            /\ UNCHANGED progVars]_vars
\* a flush that had futures to drain, followed by a second flush
FlushWitness ==
    /\ Len(hist) >= 2
    /\ FlushReturned(Prev) /\ Prev.pre.npend >= 2
    /\ FlushReturned(Last)

\* C10: a flush called when a task of pending_ops has failed does not return normally.
FlushSurfacesErrors ==
    (Len(hist) >= 1 /\ Last.op = "flush" /\ Last.pre.failed) => ~Returned(Last)

\* the unfinished task of id in pending_ops and the unfinished stores of id dropped from it
Unfinished(id) ==
    Cardinality({t \in orphans : t.id = id})
        + (IF PendHas(pending_ops, id) /\ ~Done(PendGet(pending_ops, id)) THEN 1 ELSE 0)

\* C11: in every reachable state at most one task of an id is submitted and unfinished:
\* register with persist, the write-back of an eviction and a background swap_in wait
\* for the id's unfinished task, or decline, before they submit another.
SingleFlight == \A id \in Ids : Unfinished(id) <= 1

\* the step is a call that returned or raised, and Ret is that call
Ret == hist'[Len(hist')]
CallEnds == pc' = "idle" /\ (ncalls' = ncalls + 1 \/ pc # "idle")
\* the step puts a store task of id that was not there into pending_ops
StoreIssued(id) ==
    /\ PendHas(pending_ops', id)
    /\ PendGet(pending_ops', id).kind = "store"
    /\ PendGet(pending_ops', id).st = "queued"
    /\ ~PendHas(pending_ops, id) \/ PendGet(pending_ops, id) # PendGet(pending_ops', id)

\* C12: an id enters on_disk when a store of it is issued (register with persist,
\* eviction) or swap_out writes it, and no call but unregister(id) takes it out again.
OnDiskMembership ==
    [][\A id \in Ids :
        /\ StoreIssued(id) => id \in on_disk'
        /\ (CallEnds /\ Ret.op = "swap_out" /\ Ret.id = id /\ Ret.pre.res /\ Returned(Ret))
                => id \in on_disk'
        /\ (id \in on_disk /\ id \notin on_disk')
                => (CallEnds /\ Ret.op = "unregister" /\ Ret.id = id)]_vars
\* the additions alone
OnDiskAdditions ==
    [][\A id \in Ids :
        /\ StoreIssued(id) => id \in on_disk'
        /\ (CallEnds /\ Ret.op = "swap_out" /\ Ret.id = id /\ Ret.pre.res /\ Returned(Ret))
                => id \in on_disk']_vars

\* C13: for every max_memory_experts >= 1, swap_in(id, background=True) returns None
\* without waiting: the owner is never inside a background swap_in, neither blocked on a
\* future nor in the reservation loop on an empty cache.
BackgroundNeverBlocks == ~(pc # "idle" /\ cur.op = "swap_in" /\ cur.flag)

\* the last call was made on id when its background load was done and had not failed
FoundLoaded(id) ==
    /\ Len(hist) >= 1
    /\ pc = "idle"
    /\ Last.op \in {"get", "swap_in"} /\ Last.id = id
    /\ Last.pre.pend = "load" /\ Last.pre.pst = "done" /\ ~Last.pre.failed

\* C14: a get(id) or swap_in(id), synchronous or background, that finds id's background
\* load done admits the loaded record: id is resident when the call has returned.
BackgroundIntegrated == \A id \in Ids : FoundLoaded(id) => InCache(memory_cache, id)
\* the same for get alone
BackgroundIntegratedGet ==
    \A id \in Ids : (FoundLoaded(id) /\ Last.op = "get") => InCache(memory_cache, id)

\* C15: register(id, record, persist) puts id with the record at the most-recently-used
\* end and evicts nothing, whatever the size of the cache; with persist it leaves exactly
\* one task of id in pending_ops, the store of the record, and adds id to on_disk;
\* without persist it leaves pending_ops and on_disk as they were.
RegisterEffect ==
    [][(CallEnds /\ Ret.op = "register") =>
        /\ memory_cache' # <<>>
        /\ memory_cache'[Len(memory_cache')] = [id |-> Ret.id, data |-> Ret.rec]
        /\ CacheDel(memory_cache', Ret.id) = CacheDel(memory_cache, Ret.id)
        /\ Len(memory_cache') = Len(memory_cache) + (IF Ret.pre.res THEN 0 ELSE 1)
        /\ IF Ret.flag
           THEN /\ Cardinality({i \in 1..Len(pending_ops') : pending_ops'[i].id = Ret.id}) = 1
                /\ PendGet(pending_ops', Ret.id).kind = "store"
                /\ PendGet(pending_ops', Ret.id).data = Ret.rec
                /\ PendGet(pending_ops', Ret.id).st = "queued"
                /\ PendDel(pending_ops', Ret.id) = PendDel(pending_ops, Ret.id)
                /\ on_disk' = on_disk \cup {Ret.id}
           ELSE /\ pending_ops' = pending_ops
                /\ on_disk' = on_disk]_vars
\* a register with persist of a new id on a cache that was full
RegisterWitness ==
    /\ Len(hist) >= 1
    /\ Last.op = "register" /\ Last.flag /\ ~Last.pre.res
    /\ Len(memory_cache) > max_memory
    /\ PendHas(pending_ops, Last.id)

\* C16: swap_in(id, background=True) called when id's pending operation is not done
\* returns None and leaves memory_cache (contents and order), pending_ops, on_disk and
\* access_pattern as they were; it submits no task.
DeclinedBackground ==
    [][(CallEnds /\ Ret.op = "swap_in" /\ Ret.flag /\ Ret.pre.pend # "" /\ Ret.pre.pst # "done") =>
        /\ Ret.ret = "none"
        /\ UNCHANGED <<memory_cache, pending_ops, on_disk, access_pattern, orphans>>]_vars
\* a background swap_in declined on a load that the pool has not started, with another
\* id resident
DeclinedWitness ==
    /\ Len(hist) >= 1
    /\ Is(Last, "swap_in", "A", TRUE)
    /\ Last.pre.pend = "load" /\ Last.pre.pst = "queued"
    /\ Last.ret = "none"
    /\ memory_cache # <<>>

\* C17: every value of memory_cache is a record (gate, up, down, metadata), also after
\* get(id) has consumed a completed store of id.
CacheHoldsRecords == \A i \in 1..Len(memory_cache) : IsRec(memory_cache[i].data)

\* C18: a synchronous swap_in that raises FileNotFoundError leaves memory_cache, on_disk
\* and pending_ops as they were: it evicts nothing and issues no write-back.
NotFoundNoEffect ==
    [][(CallEnds /\ Ret.op = "swap_in" /\ ~Ret.flag /\ Ret.ret = "FileNotFoundError") =>
        UNCHANGED <<memory_cache, on_disk, pending_ops>>]_vars
\* the same when the cache has room and id has no pending operation
NotFoundNoEffectRoom ==
    [][(CallEnds /\ Ret.op = "swap_in" /\ ~Ret.flag /\ Ret.ret = "FileNotFoundError"
            /\ Len(memory_cache) < max_memory /\ Ret.pre.pend = "") =>
        UNCHANGED <<memory_cache, on_disk, pending_ops>>]_vars

\* C20: when a synchronous swap_in(id) that found id's pending operation unfinished and
\* waited for it has returned, pending_ops holds no handle of id.
WaitedHandleCleared ==
    \A id \in Ids :
        (Len(hist) >= 1 /\ pc = "idle" /\ Is(Last, "swap_in", id, FALSE) /\ Returned(Last)
            /\ Last.pre.pend # "" /\ Last.pre.pst # "done")
        => ~PendHas(pending_ops, id)

\* hist holds every call made so far, and none of them met a failed task or raised
AllCallsKept == ncalls = Len(hist)
NoFailure ==
    /\ \A i \in 1..Len(pending_ops) : pending_ops[i].err = ""
    /\ \A i \in 1..Len(hist) : ~hist[i].pre.failed /\ Returned(hist[i])
\* the calls of hist that register or unregister id
Registrations(id) ==
    {i \in 1..Len(hist) : hist[i].id = id /\ hist[i].op \in {"register", "unregister"}}
LastRegistration(id) == CHOOSE i \in Registrations(id) : \A j \in Registrations(id) : j <= i
Registered(id) == Registrations(id) # {} /\ hist[LastRegistration(id)].op = "register"
Registration(id) == hist[LastRegistration(id)].rec
\* the store tasks of id in the pool that have yet to write their file
Writers(id) ==
    {t \in orphans \cup {pending_ops[i] : i \in 1..Len(pending_ops)} :
        t.id = id /\ t.kind = "store" /\ t.st \in {"queued", "running"}}

\* C19: in every state in which no task has failed, the record of each id that was
\* registered and not unregistered since is in memory_cache, or in the id's file, or in
\* an unfinished store task that will write it: no sequence of register, swap_in,
\* swap_out, get and flush removes the only copy.
NoRecordLost ==
    \A id \in Ids : (AllCallsKept /\ NoFailure /\ Registered(id)) =>
        \/ InCache(memory_cache, id) /\ CacheData(memory_cache, id) = Registration(id)
        \/ disk[id] = Registration(id)
        \/ \E t \in Writers(id) : t.data = Registration(id)
\* what does hold: some record of the id is in one of the three places
NoIdLost ==
    \A id \in Ids : (AllCallsKept /\ NoFailure /\ Registered(id)) =>
        \/ InCache(memory_cache, id) /\ IsRec(CacheData(memory_cache, id))
        \/ IsRec(disk[id])
        \/ \E t \in Writers(id) : IsRec(t.data)

====
